---- MODULE Spec2Model ----
(***************************************************************************)
(* Model of backend/main.py: the rule-based internship scoring engine      *)
(* (score_item and its matchers) and the /recommend handler built on it.   *)
(*                                                                         *)
(* Python values are records [t, s, n, l]: t is the Python type, s the     *)
(* characters of a str, n the number of an int/bool, l the entries of a    *)
(* list.  A dict is a record of such values; a key that is not in the dict *)
(* holds Missing.  A dict held as a value is [t |-> "dict", d |-> record]. *)
(* Scores are counted in units of 0.0001, so that round(total, 4) is a     *)
(* rounding to an integer; the skill fraction is kept exact.  name and     *)
(* gender are carried by the candidate and never read by the scoring.      *)
(***************************************************************************)
EXTENDS Integers, Sequences, FiniteSets, TLC

VARIABLES
    INTERNSHIPS,   \* the flattened catalog, built once at import
    request,       \* the /recommend request being served: payload and top_k
    response,      \* what /recommend answered
    cand,          \* score_item's first argument
    internship,    \* score_item's second argument
    result,        \* what score_item returned or raised
    pc             \* "call" before score_item has run, "done" after

vars == <<INTERNSHIPS, request, response, cand, internship, result, pc>>

(***************************************************************************)
(* Bounds                                                                  *)
(***************************************************************************)
MaxSkills == 2     \* longest skills list drawn
MaxCatalog == 3    \* most listings in the catalog
MaxTopK == 4       \* largest top_k requested

(***************************************************************************)
(* Python values                                                           *)
(***************************************************************************)
None == [t |-> "none", s |-> <<>>, n |-> 0, l |-> <<>>]
Missing == [t |-> "missing", s |-> <<>>, n |-> 0, l |-> <<>>]
Str(cs) == [t |-> "str", s |-> cs, n |-> 0, l |-> <<>>]
Num(k) == [t |-> "num", s |-> <<>>, n |-> k, l |-> <<>>]
Bool(b) == [t |-> "bool", s |-> <<>>, n |-> IF b THEN 1 ELSE 0, l |-> <<>>]
List(xs) == [t |-> "list", s |-> <<>>, n |-> 0, l |-> xs]

\* dict.get(key): None for a key that is not there
Get(d, k) == IF d[k].t = "missing" THEN None ELSE d[k]

\* Python truth value
Truthy(v) ==
    CASE v.t = "str" -> v.s # <<>>
      [] v.t = "num" -> v.n # 0
      [] v.t = "bool" -> v.n # 0
      [] v.t = "list" -> v.l # <<>>
      [] v.t = "dict" -> TRUE
      [] OTHER -> FALSE

\* Python's `a or b`
Or(a, b) == IF Truthy(a) THEN a ELSE b

\* isinstance(x, str)
IsStr(v) == v.t = "str"

(***************************************************************************)
(* str.lower(), str.strip() and the ordering of str, over the characters   *)
(* the model draws strings from                                            *)
(***************************************************************************)
LowerChar(c) == IF c = "P" THEN "p" ELSE IF c = "Q" THEN "q" ELSE c

Lower(cs) == [i \in 1..Len(cs) |-> LowerChar(cs[i])]

IsSpace(c) == c = " "

RECURSIVE LStrip(_)
LStrip(cs) ==
    IF cs # <<>> /\ IsSpace(Head(cs)) THEN LStrip(Tail(cs)) ELSE cs

RECURSIVE RStrip(_)
RStrip(cs) ==
    IF cs # <<>> /\ IsSpace(cs[Len(cs)])
    THEN RStrip(SubSeq(cs, 1, Len(cs) - 1))
    ELSE cs

Strip(cs) == RStrip(LStrip(cs))

\* code point of a character
Ord(c) ==
    CASE c = " " -> 32
      [] c = "P" -> 80
      [] c = "Q" -> 81
      [] c = "p" -> 112
      [] c = "q" -> 113

RECURSIVE StrLess(_, _)
StrLess(a, b) ==
    IF b = <<>> THEN FALSE
    ELSE IF a = <<>> THEN TRUE
    ELSE IF Ord(Head(a)) # Ord(Head(b)) THEN Ord(Head(a)) < Ord(Head(b))
    ELSE StrLess(Tail(a), Tail(b))

\* sorted(set of str)
RECURSIVE Sorted(_)
Sorted(S) ==
    IF S = {} THEN <<>>
    ELSE LET m == CHOOSE x \in S : \A y \in S \ {x} : StrLess(x, y)
         IN  <<m>> \o Sorted(S \ {m})

_norm_text(x) == IF IsStr(x) THEN Str(Strip(Lower(x.s))) ELSE None

(***************************************************************************)
(* Weights, in units of 0.0001                                             *)
(***************************************************************************)
LOCATION_WEIGHT == 2500
SKILL_WEIGHT == 3500
EDUCATION_WEIGHT == 2000
SECTOR_WEIGHT == 2000
BONUS_WOMEN == 500
BONUS_STIPEND == 500
StipendThreshold == 8000

(***************************************************************************)
(* Iteration                                                               *)
(***************************************************************************)
\* `for x in v` raises TypeError unless v is a list or a str
Iterable(v) == v.t \in {"list", "str"}

\* the entries `for x in v` visits: a str yields its characters
Iter(v) == IF v.t = "str" THEN [i \in 1..Len(v.s) |-> Str(<<v.s[i]>>)] ELSE v.l

Range(f) == {f[i] : i \in DOMAIN f}

\* {x.lower().strip() for x in v if isinstance(x, str)}
LowerStripSet(v) == {Strip(Lower(x.s)) : x \in {y \in Range(Iter(v)) : IsStr(y)}}

(***************************************************************************)
(* jaccard_similarity: the similarity as the fraction num/den, or the      *)
(* exception raised while building the two sets                            *)
(***************************************************************************)
jaccard_similarity(a, b) ==
    LET a1 == Or(a, List(<<>>))
        b1 == Or(b, List(<<>>))
    IN  IF ~Iterable(a1) \/ ~Iterable(b1)
        THEN [raised |-> "TypeError", num |-> 0, den |-> 1]
        ELSE LET sa == LowerStripSet(a1)
                 sb == LowerStripSet(b1)
                 inter == Cardinality(sa \cap sb)
                 union == Cardinality(sa \cup sb)
             IN  IF sa = {} \/ sb = {}
                 THEN [raised |-> "", num |-> 0, den |-> 1]
                 ELSE IF union # 0
                      THEN [raised |-> "", num |-> inter, den |-> union]
                      ELSE [raised |-> "", num |-> 0, den |-> 1]

(***************************************************************************)
(* compute_location_score                                                  *)
(***************************************************************************)
\* LocationTier with the whole LOCATION_WEIGHT given to each tier
LocationTierWholeWeight(c, it, key, percent) ==
    IF _norm_text(Get(c, key)) = _norm_text(Get(it, key))
    THEN [score |-> LOCATION_WEIGHT,
          why |-> IF Truthy(Get(it, key))
                  THEN <<[cat |-> key, v |-> Get(it, key)]>>
                  ELSE <<>>]
    ELSE [score |-> 0, why |-> <<>>]

\* one tier of compute_location_score: `percent` of LOCATION_WEIGHT and a
\* reason when the normalized values are equal
LocationTier(c, it, key, percent) ==
    IF _norm_text(Get(c, key)) = _norm_text(Get(it, key))
    THEN [score |-> (LOCATION_WEIGHT * percent) \div 100,
          why |-> IF Truthy(Get(it, key))
                  THEN <<[cat |-> key, v |-> Get(it, key)]>>
                  ELSE <<>>]
    ELSE [score |-> 0, why |-> <<>>]

StateTier(c, it) == LocationTier(c, it, "state", 40)
DistrictTier(c, it) == LocationTier(c, it, "district", 35)
CityTier(c, it) == LocationTier(c, it, "city", 25)

compute_location_score(c, it) ==
    LET state == StateTier(c, it)
        district == DistrictTier(c, it)
        city == CityTier(c, it)
    IN  [score |-> state.score + district.score + city.score,
         why |-> state.why \o district.why \o city.why]

(***************************************************************************)
(* score_item, matcher by matcher                                          *)
(***************************************************************************)
\* lines 112-120: the skill contribution as the fraction num/den of
\* SKILL_WEIGHT, its reason, or the exception raised
SkillPart(c, it) ==
    LET cs == Or(Get(c, "skills"), List(<<>>))
        ls == Or(Get(it, "skills"), List(<<>>))
        j == jaccard_similarity(cs, ls)
    IN  IF j.raised # "" THEN [raised |-> j.raised, num |-> 0, den |-> 1, why |-> <<>>]
        ELSE IF j.num > 0
        THEN \* x.lower() on every entry, str or not
             IF \E x \in Range(Iter(cs)) \cup Range(Iter(ls)) : ~IsStr(x)
             THEN [raised |-> "AttributeError", num |-> 0, den |-> 1, why |-> <<>>]
             ELSE LET overlap == Sorted({Strip(Lower(x.s)) : x \in Range(Iter(cs))}
                                        \cap {Strip(Lower(x.s)) : x \in Range(Iter(ls))})
                  IN  [raised |-> "", num |-> j.num, den |-> j.den,
                       why |-> IF overlap # <<>>
                               THEN <<[cat |-> "skills",
                                       v |-> List([i \in 1..Len(overlap) |-> Str(overlap[i])])]>>
                               ELSE <<>>]
        ELSE [raised |-> "", num |-> 0, den |-> 1, why |-> <<>>]

\* lines 122-125
EducationPart(c, it) ==
    LET education == _norm_text(Get(c, "education"))
        levels == Or(Get(it, "education_levels"), List(<<>>))
    IN  IF Truthy(education) /\ ~Iterable(levels)
        THEN [raised |-> "TypeError", score |-> 0, why |-> <<>>]
        ELSE IF Truthy(education)
                /\ \E level \in Range(Iter(levels)) : _norm_text(level) = education
        THEN [raised |-> "", score |-> EDUCATION_WEIGHT,
              why |-> <<[cat |-> "education", v |-> Get(c, "education")]>>]
        ELSE [raised |-> "", score |-> 0, why |-> <<>>]

\* lines 127-130
SectorPart(c, it) ==
    IF _norm_text(Get(c, "sector")) = _norm_text(Get(it, "sector"))
    THEN [score |-> SECTOR_WEIGHT,
          why |-> IF Truthy(Get(it, "sector"))
                  THEN <<[cat |-> "sector", v |-> Get(it, "sector")]>>
                  ELSE <<>>]
    ELSE [score |-> 0, why |-> <<>>]

\* lines 132-134
WomenPart(it) ==
    IF Truthy(Get(it, "women_empowerment"))
    THEN [score |-> BONUS_WOMEN, why |-> <<[cat |-> "women", v |-> None]>>]
    ELSE [score |-> 0, why |-> <<>>]

\* lines 136-138: `>=` between a str and an int raises TypeError
StipendPart(it) ==
    LET stipend == Or(Get(it, "stipend"), Num(0))
    IN  IF stipend.t \notin {"num", "bool"}
        THEN [raised |-> "TypeError", score |-> 0, why |-> <<>>]
        ELSE IF stipend.n >= StipendThreshold
        THEN [raised |-> "", score |-> BONUS_STIPEND,
              why |-> <<[cat |-> "stipend", v |-> Get(it, "stipend")]>>]
        ELSE [raised |-> "", score |-> 0, why |-> <<>>]

\* round(total, 4) of the total num/den: to the nearest unit, a tie to the
\* even one (a tie needs a union of 8 skills or more)
Round(num, den) ==
    LET q == num \div den
        r == num % den
    IN  IF 2 * r < den THEN q
        ELSE IF 2 * r > den THEN q + 1
        ELSE IF q % 2 = 0 THEN q ELSE q + 1

\* WhyOf with the sector reason appended before the skills reason
WhyOfSectorFirst(location, skill, education, sector, women, stipend) ==
    location.why \o sector.why \o skill.why \o education.why
    \o women.why \o stipend.why

\* the reasons, in the order score_item appends them
WhyOf(location, skill, education, sector, women, stipend) ==
    location.why \o skill.why \o education.why \o sector.why
    \o women.why \o stipend.why

score_item(c, it) ==
    LET location == compute_location_score(c, it)
        skill == SkillPart(c, it)
        education == EducationPart(c, it)
        sector == SectorPart(c, it)
        women == WomenPart(it)
        stipend == StipendPart(it)
        \* the total as a fraction over the skill fraction's denominator
        total == (location.score + education.score + sector.score
                  + women.score + stipend.score) * skill.den
                 + skill.num * SKILL_WEIGHT
    IN  IF skill.raised # ""
        THEN [raised |-> skill.raised, score |-> 0, internship |-> it, why |-> <<>>]
        ELSE IF education.raised # ""
        THEN [raised |-> education.raised, score |-> 0, internship |-> it, why |-> <<>>]
        ELSE IF stipend.raised # ""
        THEN [raised |-> stipend.raised, score |-> 0, internship |-> it, why |-> <<>>]
        ELSE [raised |-> "",
              score |-> Round(total, skill.den),
              internship |-> it,
              why |-> WhyOf(location, skill, education, sector, women, stipend)]

(***************************************************************************)
(* _to_flat and the catalog                                                *)
(***************************************************************************)
\* loc.get(key) for `loc = item.get("location") or {}`
LocGet(loc, k) == IF loc.t = "dict" THEN Get(loc.d, k) ELSE None

_to_flat(item) ==
    LET loc == Get(item, "location")
    IN  [item EXCEPT
            !.state = Or(Get(item, "state"), LocGet(loc, "state")),
            !.district = Or(Get(item, "district"), LocGet(loc, "district")),
            !.city = Or(Get(item, "city"), LocGet(loc, "city")),
            !.women_empowerment =
                IF item.women_empowerment.t = "missing"
                THEN Bool(Truthy(Or(Get(item, "gender_empowerment"), Bool(FALSE))))
                ELSE item.women_empowerment]

(***************************************************************************)
(* recommend                                                               *)
(***************************************************************************)
\* lines 194-205
Candidate(payload) ==
    LET location == Get(payload, "location")
    IN  [name |-> Get(payload, "name"),
         gender |-> Get(payload, "gender"),
         education |-> Or(Get(payload, "education"), Get(payload, "education_level")),
         skills |-> Or(Get(payload, "skills"), List(<<>>)),
         sector |-> Or(Get(payload, "sector"), Get(payload, "sector_interest")),
         state |-> Or(Get(payload, "state"), LocGet(location, "state")),
         district |-> Or(Get(payload, "district"), LocGet(location, "district")),
         city |-> Or(Get(payload, "city"), LocGet(location, "city"))]

\* line 207
Scored(candidate, catalog) ==
    LET scoreAt(i) == score_item(candidate, catalog[i])
    IN  SubSeq([i \in 1..Len(catalog) |-> scoreAt(i)], 1, Len(catalog))

\* InsertPos that puts an item in front of the items of equal score
InsertPosBeforeTies(placed, x) ==
    Cardinality({k \in 1..Len(placed) : placed[k].score > x.score})

\* list.sort(key=score, reverse=True) is stable: an item goes behind every
\* item already placed whose score is at least its own
InsertPos(placed, x) ==
    Cardinality({k \in 1..Len(placed) : placed[k].score >= x.score})

Insert(placed, x) ==
    SubSeq(placed, 1, InsertPos(placed, x)) \o <<x>>
    \o SubSeq(placed, InsertPos(placed, x) + 1, Len(placed))

RECURSIVE SortFrom(_, _)
SortFrom(placed, rest) ==
    IF rest = <<>> THEN placed
    ELSE SortFrom(Insert(placed, Head(rest)), Tail(rest))

\* SortByScoreDesc without reverse=True: ascending
SortByScoreAsc(scored) ==
    LET sorted == SortFrom(<<>>, scored)
    IN  [i \in 1..Len(sorted) |-> sorted[Len(sorted) + 1 - i]]

\* line 208
SortByScoreDesc(scored) == SortFrom(<<>>, scored)

\* line 210
Limit(top_k) == IF top_k > 1 THEN top_k ELSE 1

\* Slice that keeps one item more than the limit
SliceOneMore(scored, limit) ==
    SubSeq(scored, 1, IF limit + 1 < Len(scored) THEN limit + 1 ELSE Len(scored))

\* line 211: scored[:limit]
Slice(scored, limit) ==
    SubSeq(scored, 1, IF limit < Len(scored) THEN limit ELSE Len(scored))

\* the exception of the first score_item call that raises, "" when none does
FirstRaised(scored) ==
    IF \E i \in 1..Len(scored) : scored[i].raised # ""
    THEN scored[CHOOSE i \in 1..Len(scored) :
                    /\ scored[i].raised # ""
                    /\ \A j \in 1..(i - 1) : scored[j].raised = ""].raised
    ELSE ""

recommend(payload, top_k) ==
    IF INTERNSHIPS = <<>>
    THEN [status |-> 500, error |-> "HTTPException", body |-> <<>>]
    ELSE LET scored == Scored(Candidate(payload), INTERNSHIPS)
             raised == FirstRaised(scored)
         IN  IF raised # ""
             THEN [status |-> 500, error |-> raised, body |-> <<>>]
             ELSE [status |-> 200, error |-> "",
                   body |-> Slice(SortByScoreDesc(scored), Limit(top_k))]

(***************************************************************************)
(* Inputs                                                                  *)
(***************************************************************************)
SeqsUpTo(S, n) == UNION {[1..k -> S] : k \in 0..n}

sP == Str(<<"p">>)
sPUpper == Str(<<"P", " ">>)
sQ == Str(<<"q">>)
sBlank == Str(<<" ">>)
sEmpty == Str(<<>>)

SkillEntries == {sP, sPUpper, sQ, sBlank, Num(5)}
SkillVals == {None, Num(5)} \cup {List(xs) : xs \in SeqsUpTo(SkillEntries, MaxSkills)}
LocationVals == {None, sEmpty, sP, sPUpper, Num(5)}
SectorVals == {None, sEmpty, sP, sPUpper, sQ, Num(5)}
EducationVals == {None, sEmpty, sP, sPUpper, Num(5)}
LevelVals == {None, Num(5), List(<<>>), List(<<sP>>), List(<<sQ, sPUpper>>), List(<<Num(5)>>)}
WomenVals == {None, Bool(FALSE), Bool(TRUE)}
StipendVals == {None, Num(0), Num(7999), Num(8000), Num(10000), sEmpty, sP}

BlankCand ==
    [education |-> None, skills |-> None, sector |-> None,
     state |-> None, district |-> None, city |-> None]

FullCand ==
    [education |-> sPUpper, skills |-> List(<<sP>>), sector |-> sP,
     state |-> sPUpper, district |-> sP, city |-> sP]

BlankListing ==
    [state |-> None, district |-> None, city |-> None, skills |-> None,
     education_levels |-> None, sector |-> None,
     women_empowerment |-> Bool(FALSE), stipend |-> None]

FullListing ==
    [state |-> sP, district |-> sP, city |-> sPUpper, skills |-> List(<<sPUpper>>),
     education_levels |-> List(<<sQ, sP>>), sector |-> sPUpper,
     women_empowerment |-> Bool(TRUE), stipend |-> Num(10000)]

RawBlank ==
    [id |-> Num(0), state |-> Missing, district |-> Missing, city |-> Missing,
     location |-> Missing, skills |-> Missing, education_levels |-> Missing,
     sector |-> Missing, women_empowerment |-> Missing,
     gender_empowerment |-> Missing, stipend |-> Missing]

RawListings ==
    { [RawBlank EXCEPT !.id = Num(1), !.state = sP, !.district = sP, !.city = sP,
                       !.skills = List(<<sP, sQ>>), !.education_levels = List(<<sP>>),
                       !.sector = sP, !.women_empowerment = Bool(TRUE),
                       !.stipend = Num(10000)],
      [RawBlank EXCEPT !.id = Num(2),
                       !.location = [t |-> "dict",
                                     d |-> [state |-> sPUpper, district |-> sP, city |-> sP]],
                       !.skills = List(<<sQ, sPUpper>>),
                       !.education_levels = List(<<sQ, sP>>),
                       !.sector = sP, !.gender_empowerment = Bool(TRUE),
                       !.stipend = Num(8000)],
      [RawBlank EXCEPT !.id = Num(3)],
      [RawBlank EXCEPT !.id = Num(4), !.state = sQ, !.city = sEmpty,
                       !.location = [t |-> "dict",
                                     d |-> [state |-> sP, district |-> Missing, city |-> sP]],
                       !.skills = List(<<sP>>), !.sector = sQ,
                       !.women_empowerment = Bool(FALSE),
                       !.gender_empowerment = Bool(TRUE), !.stipend = Num(7999)],
      [RawBlank EXCEPT !.id = Num(5), !.state = sP, !.skills = List(<<sQ>>),
                       !.stipend = sP] }

PayloadBlank ==
    [name |-> Missing, gender |-> Missing, education |-> Missing,
     education_level |-> Missing, skills |-> Missing, sector |-> Missing,
     sector_interest |-> Missing, state |-> Missing, district |-> Missing,
     city |-> Missing, location |-> Missing]

Payloads ==
    { PayloadBlank,
      [PayloadBlank EXCEPT !.name = sQ, !.gender = sP, !.education = sPUpper,
                           !.skills = List(<<sP, sQ>>), !.sector = sP,
                           !.state = sP, !.district = sP, !.city = sP],
      [PayloadBlank EXCEPT !.education_level = sP, !.skills = List(<<sPUpper>>),
                           !.sector = sEmpty, !.sector_interest = sQ,
                           !.state = sEmpty,
                           !.location = [t |-> "dict",
                                         d |-> [state |-> sP, district |-> sP,
                                                city |-> Missing]]],
      [PayloadBlank EXCEPT !.skills = List(<<sP, Num(5)>>), !.state = sQ],
      [PayloadBlank EXCEPT !.skills = List(<<sQ>>), !.sector = sP, !.city = sP] }

TopKs == (0 - 1)..MaxTopK

(***************************************************************************)
(* The scoring function on its own: inputs drawn at the start, score_item  *)
(* applied to them                                                         *)
(***************************************************************************)
NoRequest == [payload |-> PayloadBlank, top_k |-> 5]
NoResponse == [status |-> 0, error |-> "", body |-> <<>>]
NoResult == [raised |-> "", score |-> 0, internship |-> BlankListing, why |-> <<>>]

\* the pairs vary the skills, or the three location tiers, or education,
\* sector and the bonus fields
InitScore ==
    /\ INTERNSHIPS = <<>>
    /\ request = NoRequest
    /\ response = NoResponse
    /\ \/ \E a \in SkillVals, k \in SkillVals :
             \/ /\ cand = [BlankCand EXCEPT !.skills = a]
                /\ internship = [BlankListing EXCEPT !.skills = k]
             \/ /\ cand = [FullCand EXCEPT !.skills = a]
                /\ internship = [FullListing EXCEPT !.skills = k]
       \/ \E x \in LocationVals \X LocationVals \X LocationVals,
             y \in LocationVals \X LocationVals \X LocationVals :
             /\ cand = [FullCand EXCEPT !.state = x[1], !.district = x[2],
                                        !.city = x[3]]
             /\ internship = [FullListing EXCEPT !.state = y[1], !.district = y[2],
                                                 !.city = y[3]]
       \/ \E x \in EducationVals \X SectorVals,
             y \in LevelVals \X SectorVals \X WomenVals \X StipendVals :
             /\ cand = [FullCand EXCEPT !.education = x[1], !.sector = x[2]]
             /\ internship = [FullListing EXCEPT !.education_levels = y[1],
                                                 !.sector = y[2],
                                                 !.women_empowerment = y[3],
                                                 !.stipend = y[4]]
    /\ result = NoResult
    /\ pc = "call"

ScoreItem ==
    /\ pc = "call"
    /\ result' = score_item(cand, internship)
    /\ pc' = "done"
    /\ UNCHANGED <<INTERNSHIPS, request, response, cand, internship>>

NextScore == ScoreItem

SpecScore == InitScore /\ [][NextScore]_vars

(***************************************************************************)
(* The service: the catalog is flattened at import, then /recommend is     *)
(* served any number of times                                              *)
(***************************************************************************)
Init ==
    /\ \E raw \in SeqsUpTo(RawListings, MaxCatalog) :
          INTERNSHIPS = [i \in 1..Len(raw) |-> _to_flat(raw[i])]
    /\ request = NoRequest
    /\ response = NoResponse
    /\ cand = BlankCand
    /\ internship = BlankListing
    /\ result = NoResult
    /\ pc = "call"

\* the handler runs on a request
Recommend ==
    /\ response = NoResponse
    /\ \E payload \in Payloads, top_k \in TopKs :
          /\ request' = [payload |-> payload, top_k |-> top_k]
          /\ response' = recommend(payload, top_k)
    /\ UNCHANGED <<INTERNSHIPS, cand, internship, result, pc>>

\* the response is sent; candidate and results are discarded with it
Respond ==
    /\ response # NoResponse
    /\ request' = NoRequest
    /\ response' = NoResponse
    /\ UNCHANGED <<INTERNSHIPS, cand, internship, result, pc>>

Next == Recommend \/ Respond

Spec == Init /\ [][Next]_vars

(***************************************************************************)
(* Properties of score_item (checked under SpecScore)                      *)
(***************************************************************************)
Tiers == {"state", "district", "city"}

TierOf(key) ==
    CASE key = "state" -> StateTier(cand, internship)
      [] key = "district" -> DistrictTier(cand, internship)
      [] key = "city" -> CityTier(cand, internship)

Absent(v) == v.t \in {"none", "missing"}

Cats(why) == {why[i].cat : i \in 1..Len(why)}

\* C1: a location tier that is absent (None) on both the candidate and the
\* listing adds nothing to the location score and emits no reason
C1_AbsentTiersNeverMatch ==
    pc = "done" /\ result.raised = "" =>
        \A key \in Tiers :
            Absent(cand[key]) /\ Absent(internship[key]) =>
                /\ TierOf(key).score = 0
                /\ TierOf(key).why = <<>>
                /\ key \notin Cats(result.why)

\* C3: score_item never raises, whatever the types of the record's fields
C3_ScoreItemNeverRaises ==
    pc = "done" => result.raised = ""

\* C4: the score returned by score_item is between 0 and 1.10, with location
\* at most 0.25, skills at most 0.35, education and sector at most 0.20 each
\* and each bonus at most 0.05
C4_ScoreWithinBounds ==
    pc = "done" /\ result.raised = "" =>
        /\ 0 <= result.score
        /\ result.score <= 11000
        /\ compute_location_score(cand, internship).score <= LOCATION_WEIGHT
        /\ SkillPart(cand, internship).num <= SkillPart(cand, internship).den
        /\ EducationPart(cand, internship).score <= EDUCATION_WEIGHT
        /\ SectorPart(cand, internship).score <= SECTOR_WEIGHT
        /\ WomenPart(internship).score <= BONUS_WOMEN
        /\ StipendPart(internship).score <= BONUS_STIPEND

\* a pair that matches on every factor scores the full 1.10
C4_Witness ==
    pc = "done" /\ result.raised = "" /\ result.score = 11000

\* the normalized skill set as the specification defines it: lowercased,
\* trimmed, non-string entries and entries empty after trimming dropped
NormalizedSkills(v) ==
    LowerStripSet(Or(v, List(<<>>))) \ {<<>>}

\* C5: when the normalized skill sets do not intersect, the skill
\* contribution is exactly 0 and no skills reason is emitted
C5_DisjointSkillsScoreZero ==
    pc = "done" /\ result.raised = ""
    /\ NormalizedSkills(Get(cand, "skills"))
       \cap NormalizedSkills(Get(internship, "skills")) = {} =>
        /\ SkillPart(cand, internship).num = 0
        /\ "skills" \notin Cats(result.why)

\* C6: an absent candidate sector contributes nothing for any listing, and
\* SECTOR_WEIGHT is added only when both sectors are strings that are equal
\* after normalization
C6_AbsentSectorScoresZero ==
    pc = "done" /\ result.raised = "" =>
        /\ Absent(cand.sector) => SectorPart(cand, internship).score = 0
        /\ SectorPart(cand, internship).score = SECTOR_WEIGHT =>
              /\ IsStr(Get(cand, "sector"))
              /\ IsStr(Get(internship, "sector"))
              /\ _norm_text(Get(cand, "sector")) = _norm_text(Get(internship, "sector"))

CatRank(cat) ==
    CASE cat = "state" -> 1
      [] cat = "district" -> 2
      [] cat = "city" -> 3
      [] cat = "skills" -> 4
      [] cat = "education" -> 5
      [] cat = "sector" -> 6
      [] cat = "women" -> 7
      [] cat = "stipend" -> 8

\* C10: the reasons are in the order state, district, city, skills,
\* education, sector, women-empowerment bonus, stipend bonus, each category
\* at most once
C10_ReasonsInCategoryOrder ==
    pc = "done" /\ result.raised = "" =>
        \A i \in 1..Len(result.why), j \in 1..Len(result.why) :
            i < j => CatRank(result.why[i].cat) < CatRank(result.why[j].cat)

\* a result that carries a reason of every category
C10_Witness ==
    pc = "done" /\ result.raised = "" /\ Len(result.why) = 8

(***************************************************************************)
(* Properties of recommend (checked under Spec)                            *)
(***************************************************************************)
Served == response # NoResponse

Min(a, b) == IF a < b THEN a ELSE b

\* C2: a request with top_k = 0 or negative, made against a loaded catalog,
\* is rejected with a client-input error and returns no results
C2_NonPositiveTopKRejected ==
    Served /\ INTERNSHIPS # <<>> /\ request.top_k <= 0 =>
        /\ response.status \in {400, 422}
        /\ response.body = <<>>

\* records as the data model describes them: skills a list of strings,
\* education levels a list of strings, a numeric or absent stipend
StrList(v) == Absent(v) \/ (v.t = "list" /\ \A i \in 1..Len(v.l) : IsStr(v.l[i]))

WellFormedInputs ==
    /\ StrList(request.payload.skills)
    /\ \A i \in 1..Len(INTERNSHIPS) :
          /\ StrList(INTERNSHIPS[i].skills)
          /\ StrList(INTERNSHIPS[i].education_levels)
          /\ INTERNSHIPS[i].stipend.t \in {"missing", "none", "num"}

\* C7: for a non-empty catalog and a positive top_k a ranking is returned
\* for every well-formed candidate and catalog, and a returned ranking has
\* exactly min(top_k, number of listings) entries
C7_LengthIsMinTopKCatalog ==
    Served /\ INTERNSHIPS # <<>> /\ request.top_k >= 1 =>
        /\ WellFormedInputs => response.status = 200
        /\ response.status = 200 =>
              Len(response.body) = Min(request.top_k, Len(INTERNSHIPS))

\* a ranking cut to top_k entries, shorter than the catalog
C7_Witness ==
    /\ Served /\ response.status = 200
    /\ request.top_k >= 2
    /\ request.top_k < Len(INTERNSHIPS)
    /\ Len(response.body) = request.top_k

\* the scores of the catalog for the request being served
CatalogScores ==
    Scored(Candidate(request.payload), INTERNSHIPS)

\* C8: the ranking is in descending order of score, and every listing that
\* scores strictly more than a returned one is itself returned
C8_SortedDescending ==
    Served /\ response.status = 200 =>
        LET body == response.body
            last == body[Len(body)].score
            scores == CatalogScores
        IN  /\ \A i \in 1..(Len(body) - 1) : body[i].score >= body[i + 1].score
            /\ \A k \in 1..Len(body) : body[k] \in Range(scores)
            /\ Cardinality({j \in 1..Len(scores) : scores[j].score > last})
               = Cardinality({k \in 1..Len(body) : body[k].score > last})

\* a ranking with a strict descent that leaves out a listing the catalog
\* holds in front of a returned one
C8_Witness ==
    /\ Served /\ response.status = 200
    /\ Len(response.body) >= 2
    /\ Len(response.body) < Len(INTERNSHIPS)
    /\ response.body[1].score > response.body[2].score
    /\ CatalogScores[1].score < response.body[Len(response.body)].score

\* the number of listings ranked in front of listing i: those that score
\* more, and those that score the same and come earlier in the catalog
Rank(scores, i) ==
    Cardinality({j \in 1..Len(scores) :
        \/ scores[j].score > scores[i].score
        \/ scores[j].score = scores[i].score /\ j < i})

\* C9: the ranking is a function of candidate, catalog and top_k alone:
\* position k holds the listing with k-1 listings ranked in front of it,
\* where equal scores rank in catalog order
C9_DeterministicStableOrder ==
    Served /\ response.status = 200 =>
        LET scores == CatalogScores
        IN  \A k \in 1..Len(response.body) :
                \E i \in 1..Len(scores) :
                    Rank(scores, i) = k - 1 /\ response.body[k] = scores[i]

\* a ranking that holds two different listings of equal score behind a
\* listing that the catalog holds after them
C9_Witness ==
    /\ Served /\ response.status = 200
    /\ \E k \in 1..(Len(response.body) - 1) :
          /\ response.body[k].score = response.body[k + 1].score
          /\ response.body[k].internship # response.body[k + 1].internship
    /\ response.body[1] = CatalogScores[Len(INTERNSHIPS)]
    /\ response.body[1].score > response.body[2].score

====
